---- MODULE Spec2Model ----
(***************************************************************************)
(* Model of discord-token-checker: the Format Inspector                    *)
(* (FormatValidator), the Liveness Prober (ApiValidator) and the           *)
(* Validation Orchestrator (DiscordTokenChecker).                          *)
(*                                                                         *)
(* A JavaScript string is a sequence of one-character strings.  Three      *)
(* characters are written by name: "LF" is the line feed, "DQUOTE" the     *)
(* double quote and "SQUOTE" the single quote.  An optional field          *)
(* (x?: T) is a sequence of length 0 (absent) or 1 (present).              *)
(***************************************************************************)
EXTENDS Integers, Sequences, FiniteSets, TLC

\* ------------------------------------------------------------ bounds
\* number of validation calls one behaviour starts
MaxCalls == 1

\* ------------------------------------------------------------ strings
None == <<>>

Some(x) == <<x>>

Rep(c, n) == [i \in 1..n |-> c]

\* characters String.prototype.trim removes
WhiteSpace == {" ", "LF"}

RECURSIVE TrimStart(_)
TrimStart(s) ==
  IF s # <<>> /\ Head(s) \in WhiteSpace THEN TrimStart(Tail(s)) ELSE s

RECURSIVE TrimEnd(_)
TrimEnd(s) ==
  IF s # <<>> /\ s[Len(s)] \in WhiteSpace
    THEN TrimEnd(SubSeq(s, 1, Len(s) - 1))
    ELSE s

\* token.trim()
Trim(s) == TrimEnd(TrimStart(s))

\* s.includes(c) for a one-character c
Includes(s, c) == \E i \in 1..Len(s) : s[i] = c

\* s.startsWith(p)
StartsWith(s, p) == Len(s) >= Len(p) /\ SubSeq(s, 1, Len(p)) = p

\* s.endsWith(p)
EndsWith(s, p) ==
  Len(s) >= Len(p) /\ SubSeq(s, Len(s) - Len(p) + 1, Len(s)) = p

\* Split, but as s.split('.', 3): at most three segments are returned
Split_Limit(s) ==
  LET dots == {i \in 1..Len(s) : s[i] = "."}
      n == Cardinality(dots)
      pos(k) == IF k = 0 THEN 0
                ELSE IF k = n + 1 THEN Len(s) + 1
                ELSE CHOOSE i \in dots : Cardinality({j \in dots : j <= i}) = k
  IN [k \in 1..(IF n + 1 > 3 THEN 3 ELSE n + 1) |->
        SubSeq(s, pos(k - 1) + 1, pos(k) - 1)]

\* s.split('.'): always at least one segment, empty segments kept
Split(s) ==
  LET dots == {i \in 1..Len(s) : s[i] = "."}
      n == Cardinality(dots)
      \* the index of the k-th dot, with the two ends of s as dots 0 and n+1
      pos(k) == IF k = 0 THEN 0
                ELSE IF k = n + 1 THEN Len(s) + 1
                ELSE CHOOSE i \in dots : Cardinality({j \in dots : j <= i}) = k
  IN [k \in 1..(n + 1) |-> SubSeq(s, pos(k - 1) + 1, pos(k) - 1)]

\* ------------------------------------------------------------ messages
\* A message is its fixed text, the numbers interpolated into it and the
\* text of an inner error it quotes, under the prefix the orchestrator adds.
Msg(text, nums, detail) ==
  [prefix |-> "", text |-> text, nums |-> nums, detail |-> detail]

\* `API validation failed: ${error}` / `API validation error: ${error}`
Prefixed(p, m) == [m EXCEPT !.prefix = p]

\* ------------------------------------------------------------ errors
TOKEN_NOT_FOUND == "TOKEN_NOT_FOUND"
API_ERROR == "API_ERROR"
NETWORK_ERROR == "NETWORK_ERROR"
RATE_LIMITED == "RATE_LIMITED"
UNAUTHORIZED == "UNAUTHORIZED"
FILE_NOT_FOUND == "FILE_NOT_FOUND"

\* the type carried by an exception the library did not construct
NOT_CLASSIFIED == "TypeError"

\* new TokenValidationError(message, type, details): of the details only
\* statusCode and retryAfter are ever read back
TokenValidationError(message, type, statusCode, retryAfter) ==
  [isTokenValidationError |-> TRUE, message |-> message, type |-> type,
   statusCode |-> statusCode, retryAfter |-> retryAfter]

\* an Error thrown by the runtime (TypeError of a property read on null,
\* ERR_INVALID_CHAR of a header value)
RuntimeError(text) ==
  [isTokenValidationError |-> FALSE, message |-> Msg(text, <<>>, ""),
   type |-> NOT_CLASSIFIED, statusCode |-> None, retryAfter |-> None]

\* ------------------------------------------------------------ tokens
\* the token argument: a string, or null / undefined from untyped callers
Str(chars) == [kind |-> "string", chars |-> chars]

Null == [kind |-> "null", chars |-> <<>>]

Undefined == [kind |-> "undefined", chars |-> <<>>]

\* !token
Falsy(token) == token.kind # "string" \/ token.chars = <<>>

\* placeholders, but your_token_here is missing from the list
placeholders_Lacks ==
  { <<"y","o","u","r","_","d","i","s","c","o","r","d","_",
      "t","o","k","e","n","_","h","e","r","e">>,
    <<"y","o","u","r","_","d","i","s","c","o","r","d","_","u","s","e","r","_",
      "t","o","k","e","n","_","h","e","r","e">>,
    <<"T","O","K","E","N","_","H","E","R","E">>,
    <<"D","I","S","C","O","R","D","_","T","O","K","E","N">> }

placeholders ==
  { <<"y","o","u","r","_","d","i","s","c","o","r","d","_",
      "t","o","k","e","n","_","h","e","r","e">>,
    <<"y","o","u","r","_","d","i","s","c","o","r","d","_","u","s","e","r","_",
      "t","o","k","e","n","_","h","e","r","e">>,
    <<"y","o","u","r","_","t","o","k","e","n","_","h","e","r","e">>,
    <<"T","O","K","E","N","_","H","E","R","E">>,
    <<"D","I","S","C","O","R","D","_","T","O","K","E","N">> }

MinTokenLength == 50

HardMinTokenLength == 30

MinUserPartLength == 10

MinTimestampPartLength == 6

MinSignaturePartLength == 20

RequiredParts == 3

\* /^[A-Za-z0-9+/=_-]+$/
Base64Chars ==
  { "A","B","C","D","E","F","G","H","I","J","K","L","M","N","O","P","Q","R",
    "S","T","U","V","W","X","Y","Z",
    "a","b","c","d","e","f","g","h","i","j","k","l","m","n","o","p","q","r",
    "s","t","u","v","w","x","y","z",
    "0","1","2","3","4","5","6","7","8","9","+","/","=","_","-" }

base64Regex(s) == Len(s) >= 1 /\ \A i \in 1..Len(s) : s[i] \in Base64Chars

\* validateTokenStructure, but a short first segment is pushed to the errors
validateTokenStructure_PushesErrors(parts, errors, warnings) ==
  IF Len(parts) # RequiredParts
    THEN [errors |-> errors, warnings |-> warnings]
  ELSE
    [errors |-> errors
       \o (IF Len(parts[1]) < MinUserPartLength
          THEN <<Msg("First part (user ID) seems too short", <<>>, "")>>
          ELSE <<>>),
     warnings |-> warnings]

\* validateTokenStructure(parts, errors, warnings): the two arrays as the
\* call leaves them (it appends to warnings only)
validateTokenStructure(parts, errors, warnings) ==
  IF Len(parts) # RequiredParts
    THEN [errors |-> errors, warnings |-> warnings]
  ELSE
    [errors |-> errors,
     warnings |-> warnings
       \o (IF Len(parts[1]) < MinUserPartLength
          THEN <<Msg("First part (user ID) seems too short", <<>>, "")>>
          ELSE <<>>)
       \o (IF Len(parts[2]) < MinTimestampPartLength
          THEN <<Msg("Second part (timestamp) seems too short", <<>>, "")>>
          ELSE <<>>)
       \o (IF Len(parts[3]) < MinSignaturePartLength
          THEN <<Msg("Third part (signature) seems too short", <<>>, "")>>
          ELSE <<>>)
       \o (IF ~base64Regex(parts[1])
          THEN <<Msg("First part contains invalid characters for base64", <<>>, "")>>
          ELSE <<>>)
       \o (IF ~base64Regex(parts[2])
          THEN <<Msg("Second part contains invalid characters for base64", <<>>, "")>>
          ELSE <<>>)
       \o (IF ~base64Regex(parts[3])
          THEN <<Msg("Third part contains invalid characters for base64", <<>>, "")>>
          ELSE <<>>)]

\* lengthCheck, but a token below 30 characters only gets the warning
lengthCheck_NeverHard(trimmedToken) ==
  IF Len(trimmedToken) >= MinTokenLength
    THEN [errors |-> <<>>, warnings |-> <<>>]
  ELSE [errors |-> <<>>,
        warnings |-> <<Msg("Token might be too short",
                           <<Len(trimmedToken)>>, "")>>]

\* the length check of validateFormat: the error or the warning it pushes
lengthCheck(trimmedToken) ==
  IF Len(trimmedToken) >= MinTokenLength
    THEN [errors |-> <<>>, warnings |-> <<>>]
  ELSE IF Len(trimmedToken) < HardMinTokenLength
    THEN [errors |-> <<Msg("Token is too short", <<Len(trimmedToken)>>, "")>>,
          warnings |-> <<>>]
  ELSE [errors |-> <<>>,
        warnings |-> <<Msg("Token might be too short",
                           <<Len(trimmedToken)>>, "")>>]

\* what a call hands back: a value it returns or an error it throws
Returned(v) == [kind |-> "returned", value |-> v, error |-> None]

Thrown(e) == [kind |-> "thrown", value |-> None, error |-> Some(e)]

\* FormatValidator.validateFormat(token) for a token that passed both guards
FormatResult(trimmedToken) ==
  LET tokenParts == Split(trimmedToken)
      hasCorrectParts == Len(tokenParts) = RequiredParts
      hasCorrectLength == Len(trimmedToken) >= MinTokenLength
      hasNoSpaces == ~Includes(trimmedToken, " ")
      hasNoQuotes ==
        /\ ~StartsWith(trimmedToken, <<"DQUOTE">>)
        /\ ~EndsWith(trimmedToken, <<"DQUOTE">>)
        /\ ~StartsWith(trimmedToken, <<"SQUOTE">>)
        /\ ~EndsWith(trimmedToken, <<"SQUOTE">>)
      isNotBotToken == ~StartsWith(trimmedToken, <<"B", "o", "t", " ">>)
      errors ==
        (IF trimmedToken \in placeholders
           THEN <<Msg("Token is still using placeholder value", <<>>, "")>>
           ELSE <<>>)
        \o (IF ~hasCorrectParts
           THEN <<Msg("Token should have 3 parts separated by dots, found",
                      <<Len(tokenParts)>>, "")>>
           ELSE <<>>)
        \o lengthCheck(trimmedToken).errors
        \o (IF ~hasNoSpaces
           THEN <<Msg("Token contains spaces - remove all spaces", <<>>, "")>>
           ELSE <<>>)
        \o (IF ~hasNoQuotes
           THEN <<Msg("Token has quotes - remove all quotes", <<>>, "")>>
           ELSE <<>>)
        \o (IF ~isNotBotToken
           THEN <<Msg("This appears to be a BOT token", <<>>, "")>>
           ELSE <<>>)
      warnings == lengthCheck(trimmedToken).warnings
      structure == validateTokenStructure(tokenParts, errors, warnings)
  IN [isValid |-> structure.errors = <<>>,
      format |-> [hasCorrectParts |-> hasCorrectParts,
                  hasCorrectLength |-> hasCorrectLength,
                  hasNoSpaces |-> hasNoSpaces,
                  hasNoQuotes |-> hasNoQuotes,
                  isNotBotToken |-> isNotBotToken],
      api |-> None,
      errors |-> structure.errors,
      warnings |-> structure.warnings,
      metadata |-> [length |-> Len(trimmedToken),
                    parts |-> Len(tokenParts),
                    source |-> "direct"]]

\* validateFormat, but the checks run on the token as given, untrimmed
validateFormat_NoTrim(token) ==
  IF Falsy(token)
    THEN Thrown(TokenValidationError(Msg("Token is null or undefined", <<>>, ""),
                                     TOKEN_NOT_FOUND, None, None))
  ELSE IF Len(Trim(token.chars)) = 0
    THEN Thrown(TokenValidationError(Msg("Token is empty", <<>>, ""),
                                     TOKEN_NOT_FOUND, None, None))
  ELSE Returned(FormatResult(token.chars))

\* FormatValidator.validateFormat(token)
validateFormat(token) ==
  IF Falsy(token)
    THEN Thrown(TokenValidationError(Msg("Token is null or undefined", <<>>, ""),
                                     TOKEN_NOT_FOUND, None, None))
  ELSE IF Len(Trim(token.chars)) = 0
    THEN Thrown(TokenValidationError(Msg("Token is empty", <<>>, ""),
                                     TOKEN_NOT_FOUND, None, None))
  ELSE Returned(FormatResult(Trim(token.chars)))

\* ------------------------------------------------------------ settings
DEFAULT_TIMEOUT == 10000

DEFAULT_USER_AGENT == "DiscordTokenChecker/1.0.0"

\* timeouts a caller configures (0: none given to the socket)
Timeouts == {0, 5000}

UserAgents == {"", "Custom/1.0"}

\* TokenCheckerConfig as the constructor leaves it
Configs ==
  [checkApi : BOOLEAN, timeout : Timeouts, includeUserInfo : BOOLEAN,
   validateFormat : BOOLEAN, userAgent : UserAgents]

\* the Partial<TokenCheckerConfig> arguments of updateConfig: one key each
Partial(key, bool, num, str) ==
  [key |-> key, bool |-> bool, num |-> num, str |-> str]

Partials ==
  { Partial("checkApi", b, 0, "") : b \in BOOLEAN }
  \cup { Partial("includeUserInfo", b, 0, "") : b \in BOOLEAN }
  \cup { Partial("validateFormat", b, 0, "") : b \in BOOLEAN }
  \cup { Partial("timeout", FALSE, t, "") : t \in Timeouts }
  \cup { Partial("userAgent", FALSE, 0, u) : u \in UserAgents }

\* { ...this.config, ...config }
mergeConfig(c, p) ==
  CASE p.key = "checkApi" -> [c EXCEPT !.checkApi = p.bool]
    [] p.key = "includeUserInfo" -> [c EXCEPT !.includeUserInfo = p.bool]
    [] p.key = "validateFormat" -> [c EXCEPT !.validateFormat = p.bool]
    [] p.key = "timeout" -> [c EXCEPT !.timeout = p.num]
    [] p.key = "userAgent" -> [c EXCEPT !.userAgent = p.str]

\* finalConfig of validateWithApi: || replaces 0 and "" by the defaults
finalConfig(c) ==
  [checkApi |-> TRUE,
   timeout |-> IF c.timeout = 0 THEN DEFAULT_TIMEOUT ELSE c.timeout,
   includeUserInfo |-> c.includeUserInfo,
   validateFormat |-> c.validateFormat,
   userAgent |-> IF c.userAgent = "" THEN DEFAULT_USER_AGENT ELSE c.userAgent]

\* ------------------------------------------------------------ the endpoint
StatusCodes == {200, 401, 403, 429, 500}

\* the accumulated response text, by what JSON.parse makes of it
Bodies ==
  { [kind |-> "unparsable", id |-> "", username |-> "",
     discriminator |-> None, premium_type |-> None],
    [kind |-> "null", id |-> "", username |-> "",
     discriminator |-> None, premium_type |-> None],
    [kind |-> "object", id |-> "42", username |-> "u",
     discriminator |-> Some("0001"), premium_type |-> None],
    [kind |-> "object", id |-> "7", username |-> "v",
     discriminator |-> None, premium_type |-> Some(2)] }

\* the retry-after header of a response, when it has one
RetryAfters == {None, Some(5)}

Responses ==
  { r \in [statusCode : StatusCodes, body : Bodies, retryAfter : RetryAfters] :
      /\ r.retryAfter # None => r.statusCode = 429
      /\ r.body.premium_type # None => r.statusCode = 200 }

\* error.message of a transport failure
TransportErrors == {"ECONNRESET", "socket hang up"}

\* parseUserInfo(response)
parseUserInfo(response) ==
  [id |-> response.id,
   username |-> response.username,
   discriminator |->
     IF response.discriminator = None THEN "0" ELSE response.discriminator[1],
   premium |->
     response.premium_type # None /\ response.premium_type[1] > 0,
   premiumType |-> response.premium_type]

\* a settled promise of makeApiRequest
Resolved(v) == [state |-> "resolved", value |-> Some(v), reason |-> None]

Rejected(e) == [state |-> "rejected", value |-> None, reason |-> Some(e)]

Pending == [state |-> "pending", value |-> None, reason |-> None]

parseFailure ==
  Rejected(TokenValidationError(Msg("Failed to parse API response", <<>>, ""),
                                API_ERROR, None, None))

\* onEnd, but without the case for 401
onEnd_No401(res) ==
  IF res.body.kind = "unparsable" \/ (res.statusCode = 200 /\ res.body.kind = "null")
    THEN parseFailure
  ELSE IF res.statusCode = 200 THEN Resolved(parseUserInfo(res.body))
  ELSE Rejected(TokenValidationError(
         Msg("API request failed with status", <<res.statusCode>>, ""),
         API_ERROR, Some(res.statusCode), None))

\* the res.on('end') handler: what it settles the promise with
onEnd(res) ==
  IF res.body.kind = "unparsable" THEN parseFailure
  ELSE CASE res.statusCode = 200 ->
              IF res.body.kind = "null" THEN parseFailure
              ELSE Resolved(parseUserInfo(res.body))
         [] res.statusCode = 401 ->
              Rejected(TokenValidationError(
                Msg("Token is invalid or expired", <<>>, ""),
                UNAUTHORIZED, Some(401), None))
         [] res.statusCode = 429 ->
              Rejected(TokenValidationError(
                Msg("Rate limited. Retry after ... seconds", res.retryAfter, ""),
                RATE_LIMITED, Some(429), res.retryAfter))
         [] res.statusCode = 403 ->
              Rejected(TokenValidationError(
                Msg("Access forbidden. Token may be valid but lacks permissions",
                    <<>>, ""),
                API_ERROR, Some(403), None))
         [] OTHER ->
              Rejected(TokenValidationError(
                Msg("API request failed with status", <<res.statusCode>>, ""),
                API_ERROR, Some(res.statusCode), None))

\* the req.on('error') handler
onError(message) ==
  Rejected(TokenValidationError(Msg("Network error: ", <<>>, message),
                                NETWORK_ERROR, None, None))

\* the rejection of the req.on('timeout') handler
onTimeout(cfg) ==
  Rejected(TokenValidationError(Msg("Request timeout after ... ms",
                                    <<cfg.timeout>>, ""),
                                NETWORK_ERROR, None, None))

\* settle, but a later resolve or reject replaces the earlier one
settle_LastWins(p, s) == s

\* resolve / reject of a promise: only the first call settles it
settle(p, s) == IF p.state = "pending" THEN s ELSE p

\* https.request refuses a header value with a control character
httpsRequestThrows(token) == Includes(token.chars, "LF")

\* the options makeApiRequest hands to https.request
requestOptions(token, cfg) ==
  [hostname |-> "discord.com", port |-> 443, path |-> "/api/v10/users/@me",
   method |-> "GET", authorization |-> token.chars,
   userAgent |-> cfg.userAgent, timeout |-> cfg.timeout]

\* makeApiRequest, but with the request sent a second time
makeApiRequest_Twice(token, cfg) ==
  [req |-> [state |-> "pending", response |-> None],
   sent |-> <<requestOptions(token, cfg), requestOptions(token, cfg)>>,
   promise |-> Pending]

\* makeApiRequest up to req.end(): the request it creates, the requests it
\* has sent and the promise it returns
makeApiRequest(token, cfg) ==
  IF httpsRequestThrows(token)
    THEN [req |-> [state |-> "none", response |-> None],
          sent |-> <<>>,
          promise |-> Rejected(RuntimeError("Invalid character in header content"))]
    ELSE [req |-> [state |-> "pending", response |-> None],
          sent |-> <<requestOptions(token, cfg)>>,
          promise |-> Pending]

\* an ApiValidationResponse
ApiValidationResponse(success, userInfo, error, statusCode, rateLimited) ==
  [success |-> success, userInfo |-> userInfo, error |-> error,
   statusCode |-> statusCode, rateLimited |-> rateLimited]

\* validateWithApiResult, but a rejection is reported as a success
validateWithApiResult_NoCatch(p, cfg) ==
  [success |-> TRUE, userInfo |-> IF cfg.includeUserInfo THEN p.value ELSE None,
   error |-> None, statusCode |-> None, rateLimited |-> None]

\* validateWithApiResult, but the success response also carries an error text
validateWithApiResult_ErrorOnSuccess(p, cfg) ==
  IF p.state = "resolved"
    THEN ApiValidationResponse(TRUE,
           IF cfg.includeUserInfo THEN p.value ELSE None,
           Some(Msg("No error", <<>>, None)), None, None)
  ELSE IF p.reason[1].isTokenValidationError
    THEN ApiValidationResponse(FALSE, None, Some(p.reason[1].message),
           p.reason[1].statusCode, Some(p.reason[1].type = RATE_LIMITED))
  ELSE ApiValidationResponse(FALSE, None, Some(p.reason[1].message), None, None)

\* validateWithApi after the await: the try block's return or the catch's
validateWithApiResult(p, cfg) ==
  IF p.state = "resolved"
    THEN ApiValidationResponse(TRUE,
           IF cfg.includeUserInfo THEN p.value ELSE None, None, None, None)
  ELSE IF p.reason[1].isTokenValidationError
    THEN ApiValidationResponse(FALSE, None, Some(p.reason[1].message),
           p.reason[1].statusCode, Some(p.reason[1].type = RATE_LIMITED))
  ELSE ApiValidationResponse(FALSE, None, Some(p.reason[1].message), None, None)

\* a truthy string: present and not empty
TruthyMsg(m) == m # None /\ m[1].text # ""

\* mergeApi, but the API error is put in front of the format errors
mergeApi_ErrorFirst(result, awaited) ==
  [result EXCEPT
     !.api = Some([isActive |-> awaited.value.success,
                   userInfo |-> awaited.value.userInfo,
                   error |-> awaited.value.error]),
     !.isValid = IF awaited.value.success THEN @ ELSE FALSE,
     !.errors = IF awaited.value.success THEN @
                ELSE <<Prefixed("API validation failed: ",
                                awaited.value.error[1])>> \o @]

\* mergeApi, but a failed API step leaves isValid as the format step set it
mergeApi_KeepsValid(result, awaited) ==
  IF awaited.kind = "returned"
    THEN [result EXCEPT
            !.api = Some([isActive |-> awaited.value.success,
                          userInfo |-> awaited.value.userInfo,
                          error |-> awaited.value.error]),
            !.errors = IF awaited.value.success THEN @
                       ELSE Append(@, Prefixed("API validation failed: ",
                                               awaited.value.error[1]))]
    ELSE result

\* mergeApi, but a failed API step adds no error
mergeApi_SilentFailure(result, awaited) ==
  [result EXCEPT
     !.api = Some([isActive |-> awaited.value.success,
                   userInfo |-> awaited.value.userInfo,
                   error |-> awaited.value.error]),
     !.isValid = IF awaited.value.success THEN @ ELSE FALSE]

\* validateToken lines 188-220: merge of what the awaited validateWithApi gave
mergeApi(result, awaited) ==
  IF awaited.kind = "returned"
    THEN LET apiResult == awaited.value
             apiInfo == [isActive |-> apiResult.success,
                         userInfo |-> apiResult.userInfo,
                         error |-> IF TruthyMsg(apiResult.error)
                                     THEN apiResult.error ELSE None]
         IN [result EXCEPT
               !.api = Some(apiInfo),
               !.isValid = IF apiResult.success THEN @ ELSE FALSE,
               !.errors =
                 IF ~apiResult.success /\ TruthyMsg(apiResult.error)
                   THEN Append(@, Prefixed("API validation failed: ",
                                           apiResult.error[1]))
                   ELSE @]
    ELSE [result EXCEPT
            !.api = Some([isActive |-> FALSE, userInfo |-> None,
                          error |-> Some(awaited.error[1].message)]),
            !.isValid = FALSE,
            !.errors = Append(@, Prefixed("API validation error: ",
                                          awaited.error[1].message))]

\* ------------------------------------------------------------ inputs
\* a token of three segments of the given lengths
ThreeParts(a, b, c) == Rep("M", a) \o <<".">> \o Rep("z", b) \o <<".">> \o Rep("x", c)

LongToken == ThreeParts(24, 6, 27)

\* the tokens callers pass
Tokens ==
  { Null, Undefined,
    Str(<<>>),
    Str(<<" ", " ">>),
    Str(LongToken),
    Str(ThreeParts(10, 6, 20)),
    Str(<<"a", ".", "b", ".", "c">>),
    Str(Rep("M", 55)),
    Str(<<"y","o","u","r","_","t","o","k","e","n","_","h","e","r","e">>),
    Str(<<"B", "o", "t", " ">> \o LongToken),
    Str(<<"DQUOTE">> \o LongToken \o <<"DQUOTE">>),
    Str(<<" ">> \o LongToken),
    Str(LongToken \o <<"LF">>),
    Str(<<"a", "LF", "b">>) }

\* validateToken lines 166-183: the minimal result of API-only validation
minimalResult(token, source) ==
  [isValid |-> TRUE,
   format |-> [hasCorrectParts |-> TRUE, hasCorrectLength |-> TRUE,
               hasNoSpaces |-> TRUE, hasNoQuotes |-> TRUE,
               isNotBotToken |-> TRUE],
   api |-> None,
   errors |-> <<>>,
   warnings |-> <<>>,
   metadata |-> [length |-> Len(token.chars),
                 parts |-> Len(Split(token.chars)),
                 source |-> source]]

\* validateToken lines 156-184: the first result, or the exception
formatStep(token, source, method) ==
  IF method \in {"format", "both"}
    THEN LET r == validateFormat(token)
         IN IF r.kind = "thrown" THEN r
            ELSE Returned([r.value EXCEPT !.metadata.source = source])
  ELSE IF token.kind # "string"
    THEN Thrown(RuntimeError("Cannot read properties of null or undefined"))
  ELSE Returned(minimalResult(token, source))

\* apiStepRuns, but the method is not looked at
apiStepRuns_AnyMethod(method, c) == c.checkApi

\* apiStepRuns, but only the default method reaches the prober
apiStepRuns_BothOnly(method, c) == method = "both" /\ c.checkApi

\* validateToken line 187: whether the API step runs
apiStepRuns(method, c) == method \in {"api", "both"} /\ c.checkApi

Methods == {"format", "api", "both"}

\* ------------------------------------------------------------ state
VARIABLES
  config,      \* this.config of the checker
  calls,       \* validation calls started so far
  pc,          \* where the current call stands
  token,       \* its token argument
  method,      \* its method argument
  result,      \* its local variable result
  outcome,     \* what it handed back to its caller, once it has
  usedConfig,  \* finalConfig of its validateWithApi invocation
  req,         \* the ClientRequest of its makeApiRequest
  promise,     \* the promise of its makeApiRequest
  events,      \* the events its request has emitted, in order
  requests,    \* the options of every https.request it issued, in order
  proberCalls, \* its invocations of validateWithApi
  apiResult,   \* what its validateWithApi returned, once it has
  callState,   \* the locals and closures of each of two concurrent calls
  heap,        \* the result objects the concurrent calls have created
  processEnv,  \* process.env: the value of each variable, when it has one
  files,       \* the file system: the content of each path, when it exists
  call         \* the entry point and the options of the current call

vars ==
  <<config, calls, pc, token, method, result, outcome, usedConfig, req,
    promise, events, requests, proberCalls, apiResult, callState, heap,
    processEnv, files, call>>

\* the two calls that run concurrently on one checker
CallIds == {1, 2}

\* a call that has not been invoked
IdleCall ==
  [pc |-> "idle", token |-> Null, method |-> "both", ref |-> 0,
   thrown |-> None, usedConfig |-> None, req |-> [state |-> "none", response |-> None],
   promise |-> [state |-> "pending", value |-> None, reason |-> None],
   events |-> <<>>, requests |-> <<>>, apiResult |-> None]

\* no concurrent call is invoked and no result object exists
NoConcurrentCalls ==
  /\ callState = [c \in CallIds |-> IdleCall]
  /\ heap = [o \in CallIds |-> None]

\* the variables a caller names as tokenVar
TokenVars == {"DISCORD_TOKEN", "USER_TOKEN"}

\* the paths a caller names as envPath or filePath
EnvPaths == {"a.env", "b.env", "c.env", "missing.env"}

FilePaths ==
  {"token.txt", "short.txt", "empty.txt", "blank.txt", "locked.txt",
   "missing.txt"}

\* the options of validateDirect: no path, no variable, no cleanup
DirectCall ==
  [kind |-> "direct", path |-> "", tokenVar |-> "", cleanup |-> FALSE]

\* no variable is set, no file exists, no entry point but validateDirect
NoSources ==
  /\ processEnv = [v \in TokenVars |-> None]
  /\ files = [p \in EnvPaths \cup FilePaths |-> None]
  /\ call = DirectCall

NoRequest == [state |-> "none", response |-> None]

Init ==
  /\ NoConcurrentCalls
  /\ NoSources
  /\ config \in Configs
  /\ calls = 0
  /\ pc = "idle"
  /\ token = Null
  /\ method = "both"
  /\ result = None
  /\ outcome = None
  /\ usedConfig = None
  /\ req = NoRequest
  /\ promise = Pending
  /\ events = <<>>
  /\ requests = <<>>
  /\ proberCalls = 0
  /\ apiResult = None

\* updateConfig(config)
UpdateConfig(p) ==
  /\ UNCHANGED <<callState, heap, processEnv, files, call>>
  /\ config' = mergeConfig(config, p)
  /\ UNCHANGED <<calls, pc, token, method, result, outcome, usedConfig, req,
                 promise, events, requests, proberCalls, apiResult>>

\* validateDirect(t, m), up to its first await: the format step, the
\* decision to run the API step, and validateWithApi up to the request
ValidateDirect(t, m) ==
  /\ UNCHANGED <<callState, heap, processEnv, files>>
  /\ call' = DirectCall
  /\ pc \in {"idle", "done"}
  /\ calls < MaxCalls
  /\ calls' = calls + 1
  /\ token' = t
  /\ method' = m
  /\ events' = <<>>
  /\ UNCHANGED config
  /\ \E first \in {formatStep(t, "direct", m)} :
        IF first.kind = "thrown"
          THEN /\ pc' = "done"
               /\ result' = None
               /\ outcome' = Some(first)
               /\ usedConfig' = None
               /\ req' = NoRequest
               /\ promise' = Pending
               /\ requests' = <<>>
               /\ proberCalls' = 0
               /\ apiResult' = None
        ELSE IF (~first.value.isValid /\ m = "format") \/ ~apiStepRuns(m, config)
          THEN /\ pc' = "done"
               /\ result' = Some(first.value)
               /\ outcome' = Some(first)
               /\ usedConfig' = None
               /\ req' = NoRequest
               /\ promise' = Pending
               /\ requests' = <<>>
               /\ proberCalls' = 0
               /\ apiResult' = None
        ELSE /\ pc' = "awaitApi"
             /\ result' = Some(first.value)
             /\ outcome' = None
             /\ usedConfig' = Some(finalConfig(config))
             /\ proberCalls' = 1
             /\ apiResult' = None
             /\ \E made \in {makeApiRequest(t, finalConfig(config))} :
                  /\ req' = made.req
                  /\ requests' = made.sent
                  /\ promise' = made.promise

\* the response has been received in full: res emits 'end'
ResEnd(res) ==
  /\ UNCHANGED <<callState, heap, processEnv, files, call>>
  /\ req.state \in {"pending", "destroyed"}
  /\ \A i \in 1..Len(events) : events[i] \notin {"end", "error"}
  /\ events' = Append(events, "end")
  /\ req' = [state |-> IF req.state = "pending" THEN "completed" ELSE req.state,
             response |-> Some(res)]
  /\ promise' = settle(promise, onEnd(res))
  /\ UNCHANGED <<config, calls, pc, token, method, result, outcome, usedConfig,
                 requests, proberCalls, apiResult>>

\* the transport fails, or the destroyed socket hangs up: req emits 'error'
ReqError(message) ==
  /\ UNCHANGED <<callState, heap, processEnv, files, call>>
  /\ req.state \in {"pending", "destroyed"}
  /\ \A i \in 1..Len(events) : events[i] \notin {"end", "error"}
  /\ events' = Append(events, "error")
  /\ req' = [req EXCEPT !.state = IF @ = "pending" THEN "errored" ELSE @]
  /\ promise' = settle(promise, onError(message))
  /\ UNCHANGED <<config, calls, pc, token, method, result, outcome, usedConfig,
                 requests, proberCalls, apiResult>>

\* what the 'timeout' handler does to the request: req.destroy()
destroy(r) == [r EXCEPT !.state = "destroyed"]

\* the socket has been idle for options.timeout: req emits 'timeout'
ReqTimeout ==
  /\ UNCHANGED <<callState, heap, processEnv, files, call>>
  /\ req.state = "pending"
  /\ events' = Append(events, "timeout")
  /\ req' = destroy(req)
  /\ promise' = settle(promise, onTimeout(usedConfig[1]))
  /\ UNCHANGED <<config, calls, pc, token, method, result, outcome, usedConfig,
                 requests, proberCalls, apiResult>>

\* ValidateTokenResume, but validateWithApi reads the settings of the
\* checker again after the await
ValidateTokenResume_ReadsLive ==
  /\ UNCHANGED <<callState, heap, processEnv, files, call>>
  /\ pc = "awaitApi"
  /\ promise.state # "pending"
  /\ pc' = "done"
  /\ \E response \in {validateWithApiResult(promise, finalConfig(config))} :
       \E merged \in {mergeApi(result[1], Returned(response))} :
         /\ apiResult' = Some(response)
         /\ result' = Some(merged)
         /\ outcome' = Some(Returned(merged))
  /\ UNCHANGED <<config, calls, token, method, usedConfig, req, promise,
                 events, requests, proberCalls>>

\* the promise has settled: validateWithApi returns, and validateToken merges
\* what it awaited into its result and returns it
ValidateTokenResume ==
  /\ UNCHANGED <<callState, heap, processEnv, files, call>>
  /\ pc = "awaitApi"
  /\ promise.state # "pending"
  /\ pc' = "done"
  /\ \E response \in {validateWithApiResult(promise, usedConfig[1])} :
       \E merged \in {mergeApi(result[1], Returned(response))} :
         /\ apiResult' = Some(response)
         /\ result' = Some(merged)
         /\ outcome' = Some(Returned(merged))
  /\ UNCHANGED <<config, calls, token, method, usedConfig, req, promise,
                 events, requests, proberCalls>>

\* the calls and the network events of a checker whose settings stay as
\* constructed
Next ==
  \/ \E t \in Tokens, m \in Methods : ValidateDirect(t, m)
  \/ \E res \in Responses : ResEnd(res)
  \/ \E e \in TransportErrors : ReqError(e)
  \/ ReqTimeout
  \/ ValidateTokenResume

Spec == Init /\ [][Next]_vars

\* the tokens and the responses of the calls that updates interleave with
UpdateTokens == {Str(LongToken), Str(<<"a", ".", "b", ".", "c">>)}

UpdateResponses ==
  {r \in Responses : r.statusCode \in {200, 401} /\ r.body.kind = "object"}

\* a checker whose settings are also updated between and during calls
NextUpdate ==
  \/ \E p \in Partials : UpdateConfig(p)
  \/ \E t \in UpdateTokens, m \in Methods : ValidateDirect(t, m)
  \/ \E res \in UpdateResponses : ResEnd(res)
  \/ \E e \in TransportErrors : ReqError(e)
  \/ ReqTimeout
  \/ ValidateTokenResume

SpecUpdate == Init /\ [][NextUpdate]_vars

\* ------------------------------------------------------------ properties
\* the call has returned a ValidationResult to its caller
HasReturned == pc = "done" /\ outcome # None /\ outcome[1].kind = "returned"

\* the call has thrown
HasThrown == pc = "done" /\ outcome # None /\ outcome[1].kind = "thrown"

\* the prober ran in this call and has reported
ProberReported == proberCalls = 1 /\ apiResult # None

\* the Format Inspector accepts the call's token
FormatAccepts ==
  validateFormat(token).kind = "returned" /\ validateFormat(token).value.isValid

\* the Format Inspector produces a verdict on the call's token and rejects it
FormatRejects ==
  validateFormat(token).kind = "returned" /\ ~validateFormat(token).value.isValid

\* C1: the isValid of a returned result is (format validity, or true for
\* method api) and (the API step did not run or the prober reported
\* success); a failure the prober reports is appended to the errors, under
\* the API prefix, and makes the result invalid
C1_MergeRule ==
  HasReturned =>
    LET r == outcome[1].value
        formatOk == method = "api" \/ FormatAccepts
        apiOk == proberCalls = 0 \/ (ProberReported /\ apiResult[1].success)
    IN /\ r.isValid = (formatOk /\ apiOk)
       /\ (ProberReported /\ ~apiResult[1].success) =>
            /\ ~r.isValid
            /\ apiResult[1].error # None
            /\ r.errors # <<>>
            /\ r.errors[Len(r.errors)] =
                 Prefixed("API validation failed: ", apiResult[1].error[1])

\* a token the format checks accept, validated with both, is reported
\* invalid because the prober failed
C1_Witness ==
  /\ HasReturned
  /\ method = "both"
  /\ FormatAccepts
  /\ ProberReported
  /\ ~apiResult[1].success
  /\ ~outcome[1].value.isValid

\* C2: a call that started the API step never throws; once the promise of
\* the request has settled the call can return, and whenever the promise
\* was rejected (failure status, unparsable body, transport error, timeout,
\* exception of https.request) what it returns is a result with
\* api.isActive false and isValid false
C2_AlwaysAResult ==
  /\ proberCalls = 1 => ~HasThrown
  /\ (pc = "awaitApi" /\ promise.state # "pending") => ENABLED ValidateTokenResume
  /\ (proberCalls = 1 /\ pc = "done") =>
       /\ HasReturned
       /\ promise.state # "pending"
       /\ promise.state = "rejected" =>
            /\ outcome[1].value.api # None
            /\ ~outcome[1].value.api[1].isActive
            /\ ~outcome[1].value.isValid

\* https.request threw on the token's line feed, and the call still
\* returned a result
C2_Witness ==
  /\ HasReturned
  /\ proberCalls = 1
  /\ requests = <<>>
  /\ ~promise.reason[1].isTokenValidationError
  /\ ~outcome[1].value.api[1].isActive

\* the call's token is null, undefined, or empty after trimming
TokenMissing == token.kind # "string" \/ Len(Trim(token.chars)) = 0

\* C3: with every method, a call whose token is null, undefined or empty
\* after trimming sends no request and ends by throwing TOKEN_NOT_FOUND,
\* never by returning a result
C3_MissingTokenAborts ==
  (pc # "idle" /\ TokenMissing) =>
    /\ requests = <<>>
    /\ proberCalls = 0
    /\ pc = "done"
    /\ HasThrown
    /\ outcome[1].error[1].type = TOKEN_NOT_FOUND

C5_FormatOnly ==
  (pc # "idle" /\ method = "format") =>
    /\ requests = <<>>
    /\ proberCalls = 0
    /\ req.state = "none"
    /\ pc = "done"
    /\ HasReturned =>
         /\ outcome[1].value.api = None
         /\ outcome[1].value.isValid = FormatAccepts

\* a format-valid token validated with method format under checkApi = true
C5_Witness ==
  /\ HasReturned
  /\ method = "format"
  /\ config.checkApi
  /\ FormatAccepts
  /\ outcome[1].value.isValid

\* the errors of the Format Inspector on the call's token
FormatErrors == validateFormat(token).value.errors

\* C6: with method both and checkApi enabled, a non-empty token the format
\* checks reject still has the prober invoked once, and the returned result
\* carries the liveness outcome and the format errors, the format errors
\* first and every API error after them
C6_BothRunsProber ==
  (pc # "idle" /\ method = "both" /\ config.checkApi /\ FormatRejects) =>
    /\ proberCalls = 1
    /\ pc = "done" =>
         /\ HasReturned
         /\ outcome[1].value.api # None
         /\ outcome[1].value.api[1].isActive = apiResult[1].success
         /\ FormatErrors # <<>>
         /\ Len(outcome[1].value.errors) >= Len(FormatErrors)
         /\ SubSeq(outcome[1].value.errors, 1, Len(FormatErrors)) = FormatErrors
         /\ \A i \in 1..Len(outcome[1].value.errors) :
              (outcome[1].value.errors[i].prefix # "") <=> i > Len(FormatErrors)

\* a malformed token, validated with both, was probed and the result holds
\* the format errors followed by the API error
C6_Witness ==
  /\ HasReturned
  /\ method = "both"
  /\ FormatRejects
  /\ Len(requests) = 1
  /\ ~apiResult[1].success
  /\ Len(outcome[1].value.errors) = Len(FormatErrors) + 1

\* the placeholder FormatVerdict: all five flags true
AllFlagsTrue(f) ==
  /\ f.hasCorrectParts
  /\ f.hasCorrectLength
  /\ f.hasNoSpaces
  /\ f.hasNoQuotes
  /\ f.isNotBotToken

\* a result with no format error and no warning
NoFormatMessages(r) ==
  /\ r.warnings = <<>>
  /\ \A i \in 1..Len(r.errors) : r.errors[i].prefix # ""

\* C7 as claimed: with method api the result has all five flags true, no
\* format error or warning, and is valid exactly when the prober reported
\* success
C7_ApiOnlyValidIffProberSuccess ==
  (HasReturned /\ method = "api") =>
    /\ AllFlagsTrue(outcome[1].value.format)
    /\ NoFormatMessages(outcome[1].value)
    /\ outcome[1].value.isValid <=> (ProberReported /\ apiResult[1].success)

\* C7: with method api the result has all five flags true and no format
\* error or warning; with checkApi enabled it is valid exactly when the
\* prober reported success, and with checkApi disabled the prober does not
\* run and the result is valid
C7_ApiOnly ==
  (HasReturned /\ method = "api") =>
    /\ AllFlagsTrue(outcome[1].value.format)
    /\ NoFormatMessages(outcome[1].value)
    /\ config.checkApi =>
         (outcome[1].value.isValid <=> (ProberReported /\ apiResult[1].success))
    /\ ~config.checkApi => (proberCalls = 0 /\ outcome[1].value.isValid)

\* a token the format checks reject, validated with method api, is
\* reported valid after a 200
C7_Witness ==
  /\ HasReturned
  /\ method = "api"
  /\ FormatRejects
  /\ ProberReported
  /\ apiResult[1].success
  /\ outcome[1].value.isValid
  /\ AllFlagsTrue(outcome[1].value.format)

\* the first event of the call's request was a complete response
ResponseCompleted == events # <<>> /\ events[1] = "end"

\* C8 as claimed, for the 429 responses whose body parses as JSON: the
\* prober reports a failure flagged rateLimited with status code 429 that
\* carries the retry-after value of the response as a field of its own
C8_RetryAfterSurfaced ==
  (/\ ProberReported
   /\ ResponseCompleted
   /\ req.response[1].statusCode = 429
   /\ req.response[1].body.kind # "unparsable") =>
    /\ ~apiResult[1].success
    /\ apiResult[1].rateLimited = Some(TRUE)
    /\ apiResult[1].statusCode = Some(429)
    /\ req.response[1].retryAfter # None =>
         /\ "retryAfter" \in DOMAIN apiResult[1]
         /\ apiResult[1].retryAfter = req.response[1].retryAfter

\* the body of the response parses, and as something parseUserInfo can read
\* when the status asks for it
BodyReadable(res) ==
  /\ res.body.kind # "unparsable"
  /\ ~(res.statusCode = 200 /\ res.body.kind = "null")

\* the classification of a response by its status alone
ClassifiedByStatus(res, p, out) ==
  /\ res.statusCode = 200 => p.state = "resolved"
  /\ res.statusCode = 401 =>
       /\ p.state = "rejected"
       /\ p.reason[1].type = UNAUTHORIZED
       /\ p.reason[1].message.text = "Token is invalid or expired"
  /\ res.statusCode = 403 =>
       /\ p.state = "rejected"
       /\ p.reason[1].type = API_ERROR
  /\ res.statusCode \notin {200, 401, 403, 429} =>
       /\ p.state = "rejected"
       /\ p.reason[1].type = API_ERROR
       /\ p.reason[1].message.nums = <<res.statusCode>>
  /\ p.state = "rejected" => p.reason[1].statusCode = Some(res.statusCode)
  /\ out # None =>
       /\ out[1].success = (p.state = "resolved")
       /\ ~out[1].success => out[1].statusCode = Some(res.statusCode)

\* C9 as claimed: whatever its body, a completed response is classified by
\* its status alone, and a failure carries the status code of the response
C9_StatusAlone ==
  ResponseCompleted => ClassifiedByStatus(req.response[1], promise, apiResult)

\* C9: a completed response whose body parses as JSON (and is not null
\* under a 200) is classified by its status alone and a failure carries
\* the status code; any other completed response is an API_ERROR
\* 'Failed to parse API response' without a status code, whatever its status
C9_StatusAloneWhenReadable ==
  ResponseCompleted =>
    IF BodyReadable(req.response[1])
      THEN ClassifiedByStatus(req.response[1], promise, apiResult)
      ELSE /\ promise.state = "rejected"
           /\ promise.reason[1].type = API_ERROR
           /\ promise.reason[1].message.text = "Failed to parse API response"
           /\ promise.reason[1].statusCode = None
           /\ apiResult # None =>
                (~apiResult[1].success /\ apiResult[1].statusCode = None)

\* a 401 with a JSON body was reported as a failure carrying 401
C9_Witness ==
  /\ ProberReported
  /\ ResponseCompleted
  /\ req.response[1].statusCode = 401
  /\ req.response[1].body.kind = "object"
  /\ ~apiResult[1].success
  /\ apiResult[1].statusCode = Some(401)

\* C10: once the request has timed out it is destroyed and the promise is
\* rejected as NETWORK_ERROR with a message naming the timeout the request
\* was configured with (the configured timeout, or the default for 0);
\* an error event or a response after the abort changes nothing of it, the
\* prober reports that failure, and no request is pending once the call
\* has returned
C10_TimeoutOutcome ==
  /\ pc = "done" => req.state # "pending"
  /\ (events # <<>> /\ events[1] = "timeout") =>
       /\ req.state = "destroyed"
       /\ promise.state = "rejected"
       /\ promise.reason[1].type = NETWORK_ERROR
       /\ promise.reason[1].message.text = "Request timeout after ... ms"
       /\ promise.reason[1].message.nums = <<requests[1].timeout>>
       /\ requests[1].timeout =
            IF config.timeout = 0 THEN DEFAULT_TIMEOUT ELSE config.timeout
       /\ ProberReported =>
            /\ ~apiResult[1].success
            /\ apiResult[1].userInfo = None
            /\ apiResult[1].error = Some(promise.reason[1].message)

\* the request timed out, a 200 arrived after the abort, and the call
\* returned the timeout failure
C10_Witness ==
  /\ HasReturned
  /\ events = <<"timeout", "end">>
  /\ req.response[1].statusCode = 200
  /\ req.response[1].body.kind = "object"
  /\ req.state = "destroyed"
  /\ ~apiResult[1].success
  /\ ~outcome[1].value.isValid

\* ------------------------------------------------------------ C11
\* C11: every response validateWithApi returns, and every api entry the
\* orchestrator records in a result, carries no error when it reports
\* success and carries no user profile when it reports failure
C11_LivenessOutcomeShape ==
  /\ apiResult # None =>
       /\ apiResult[1].success => apiResult[1].error = None
       /\ ~apiResult[1].success => apiResult[1].userInfo = None
  /\ (HasReturned /\ outcome[1].value.api # None) =>
       /\ outcome[1].value.api[1].isActive =>
            outcome[1].value.api[1].error = None
       /\ ~outcome[1].value.api[1].isActive =>
            outcome[1].value.api[1].userInfo = None

\* both shapes occur: a success that carries a profile and no error is
\* recorded in a returned result
C11_Witness ==
  /\ HasReturned
  /\ ProberReported
  /\ apiResult[1].success
  /\ apiResult[1].userInfo # None
  /\ outcome[1].value.api # None
  /\ outcome[1].value.api[1].isActive
  /\ outcome[1].value.api[1].userInfo # None
  /\ outcome[1].value.api[1].error = None

\* ------------------------------------------------------------ format calls
\* the largest number of dot-separated segments of a token given to
\* validateFormat
MaxParts == 4

\* segment lengths on both sides of the minimum lengths of the structure
\* check; with the two dots of a three-segment token they give totals on
\* both sides of 30 and of 50
UserPartLengths == {9, 10, 24}

TimestampPartLengths == {5, 6}

SignaturePartLengths == {13, 18, 20}

\* n segments of lengths a, b, c, a, ... joined by dots
RECURSIVE Dotted(_, _, _, _)
Dotted(n, a, b, c) ==
  IF n = 1 THEN Rep("M", a)
  ELSE Dotted(n - 1, a, b, c) \o <<".">>
       \o (IF n % 3 = 1 THEN Rep("M", a)
           ELSE IF n % 3 = 2 THEN Rep("z", b)
           ELSE Rep("x", c))

\* what a caller does to a token before handing it over
Decorations ==
  {"plain", "leading space", "trailing space", "embedded space",
   "trailing line feed", "double quotes", "single quote", "Bot prefix",
   "illegal character"}

Decorated(s, d) ==
  CASE d = "plain" -> s
    [] d = "leading space" -> <<" ">> \o s
    [] d = "trailing space" -> s \o <<" ">>
    [] d = "embedded space" -> <<Head(s), " ">> \o Tail(s)
    [] d = "trailing line feed" -> s \o <<"LF">>
    [] d = "double quotes" -> <<"DQUOTE">> \o s \o <<"DQUOTE">>
    [] d = "single quote" -> <<"SQUOTE">> \o s
    [] d = "Bot prefix" -> <<"B", "o", "t", " ">> \o s
    [] d = "illegal character" -> <<"!">> \o Tail(s)

\* values left in a .env file by someone who has not filled it in
YourTokenHere == <<"y","o","u","r","_","t","o","k","e","n","_","h","e","r","e">>

ExampleValues ==
  { YourTokenHere,
    <<"T","O","K","E","N","_","H","E","R","E">>,
    <<"y","o","u","r","_","t","o","k","e","n">> }

\* the tokens given to validateFormat
FormatTokens ==
  {Null, Undefined, Str(<<>>), Str(<<" ", "LF">>)}
  \cup {Str(Decorated(p, d)) :
          p \in ExampleValues, d \in {"plain", "leading space", "double quotes"}}
  \cup {Str(Decorated(Dotted(n, a, b, c), d)) :
          n \in 1..MaxParts, a \in UserPartLengths, b \in TimestampPartLengths,
          c \in SignaturePartLengths, d \in Decorations}

\* a caller about to hand a token to FormatValidator.validateFormat
InitFormat ==
  /\ NoConcurrentCalls
  /\ NoSources
  /\ config = [checkApi |-> TRUE, timeout |-> DEFAULT_TIMEOUT,
               includeUserInfo |-> TRUE, validateFormat |-> TRUE,
               userAgent |-> DEFAULT_USER_AGENT]
  /\ calls = 0
  /\ pc = "idle"
  /\ token \in FormatTokens
  /\ method = "format"
  /\ result = None
  /\ outcome = None
  /\ usedConfig = None
  /\ req = NoRequest
  /\ promise = Pending
  /\ events = <<>>
  /\ requests = <<>>
  /\ proberCalls = 0
  /\ apiResult = None

\* FormatValidator.validateFormat(token), called on its own
ValidateFormat ==
  /\ UNCHANGED <<callState, heap, processEnv, files, call>>
  /\ pc = "idle"
  /\ calls' = calls + 1
  /\ outcome' = Some(validateFormat(token))
  /\ pc' = "done"
  /\ UNCHANGED <<config, token, method, result, usedConfig, req, promise,
                 events, requests, proberCalls, apiResult>>

NextFormat == ValidateFormat

SpecFormat == InitFormat /\ [][NextFormat]_vars

\* ------------------------------------------------------------ claims C12-C16
\* validateFormat has returned a result for the token
FormatReturned == pc = "done" /\ outcome[1].kind = "returned"

\* the texts of a list of messages
Texts(msgs) == {msgs[i].text : i \in 1..Len(msgs)}

\* the number of dot-separated segments of a string
SegmentCount(s) == Cardinality({i \in 1..Len(s) : s[i] = "."}) + 1

\* the messages of a list that have the given text
WithText(msgs, text) == {i \in 1..Len(msgs) : msgs[i].text = text}

\* C12: for a non-empty token whose trimmed form has fewer or more than 3
\* dot-separated segments validateFormat returns hasCorrectParts=false and
\* isValid=false with an error that cites the segment count found; for
\* exactly 3 segments hasCorrectParts is true
C12_SegmentCount ==
  FormatReturned =>
    LET r == outcome[1].value
        n == SegmentCount(Trim(token.chars))
    IN /\ n # 3 =>
            /\ ~r.format.hasCorrectParts
            /\ ~r.isValid
            /\ \E i \in WithText(r.errors,
                   "Token should have 3 parts separated by dots, found") :
                 r.errors[i].nums = <<n>>
       /\ n = 3 => r.format.hasCorrectParts

\* a token of four segments, long enough and otherwise clean, is rejected
\* for its segment count alone
C12_Witness ==
  /\ FormatReturned
  /\ SegmentCount(Trim(token.chars)) = 4
  /\ ~outcome[1].value.format.hasCorrectParts
  /\ ~outcome[1].value.isValid
  /\ Len(outcome[1].value.errors) = 1
  /\ outcome[1].value.errors[1].nums = <<4>>

\* C13: the length of the trimmed token grades the result: below 30 a hard
\* "too short" error and an invalid result; from 30 to 49 exactly one length
\* warning, no length error, and a validity the other checks decide; from 50
\* on no length message at all; hasCorrectLength is false exactly below 50
C13_LengthGrading ==
  FormatReturned =>
    LET r == outcome[1].value
        t == Trim(token.chars)
        hard == WithText(r.errors, "Token is too short")
        soft == WithText(r.warnings, "Token might be too short")
    IN /\ Len(t) < 30 =>
            /\ ~r.isValid
            /\ Cardinality(hard) = 1
            /\ \A i \in hard : r.errors[i].nums = <<Len(t)>>
            /\ soft = {}
       /\ (Len(t) >= 30 /\ Len(t) < 50) =>
            /\ Cardinality(soft) = 1
            /\ hard = {}
            /\ r.isValid <=>
                 /\ r.format.hasCorrectParts
                 /\ r.format.hasNoSpaces
                 /\ r.format.hasNoQuotes
                 /\ r.format.isNotBotToken
                 /\ WithText(r.errors,
                             "Token is still using placeholder value") = {}
       /\ Len(t) >= 50 => hard = {} /\ soft = {}
       /\ r.format.hasCorrectLength <=> Len(t) >= 50
       /\ WithText(r.warnings, "Token is too short") = {}
       /\ WithText(r.errors, "Token might be too short") = {}

\* a token of exactly 30 characters is valid, carries the length warning and
\* has hasCorrectLength false
C13_Witness ==
  /\ FormatReturned
  /\ Len(Trim(token.chars)) = 30
  /\ outcome[1].value.isValid
  /\ ~outcome[1].value.format.hasCorrectLength
  /\ WithText(outcome[1].value.warnings, "Token might be too short") # {}

\* C14 as claimed: a non-empty token with a space anywhere, leading and
\* trailing included, gets isValid=false and hasNoSpaces=false
C14_AnySpaceInvalid ==
  (FormatReturned /\ Includes(token.chars, " ")) =>
    /\ ~outcome[1].value.isValid
    /\ ~outcome[1].value.format.hasNoSpaces

\* C14: a token that still contains a space after trimming gets
\* isValid=false, hasNoSpaces=false and the spaces error; leading and
\* trailing white space is removed before the check and leaves hasNoSpaces
\* true
C14_EmbeddedSpaceInvalid ==
  FormatReturned =>
    LET r == outcome[1].value
        t == Trim(token.chars)
    IN /\ Includes(t, " ") =>
            /\ ~r.isValid
            /\ ~r.format.hasNoSpaces
            /\ WithText(r.errors,
                        "Token contains spaces - remove all spaces") # {}
       /\ ~Includes(t, " ") =>
            /\ r.format.hasNoSpaces
            /\ WithText(r.errors,
                        "Token contains spaces - remove all spaces") = {}

\* a three-segment token with one embedded space is rejected for the space
\* alone
C14_Witness ==
  /\ FormatReturned
  /\ Includes(Trim(token.chars), " ")
  /\ ~outcome[1].value.isValid
  /\ ~outcome[1].value.format.hasNoSpaces
  /\ Len(outcome[1].value.errors) = 1

\* C15: a token whose trimmed form is a known placeholder, such as
\* your_token_here, is invalid and its error list starts with the placeholder
\* message, next to whatever the segment and length checks add
C15_PlaceholderRejected ==
  (/\ FormatReturned
   /\ Trim(token.chars) \in placeholders \cup {YourTokenHere}) =>
    /\ ~outcome[1].value.isValid
    /\ outcome[1].value.errors # <<>>
    /\ outcome[1].value.errors[1].text = "Token is still using placeholder value"
    /\ Cardinality(WithText(outcome[1].value.errors,
                            "Token is still using placeholder value")) = 1

\* your_token_here is rejected with the placeholder message and with the
\* errors of the segment and length checks
C15_Witness ==
  /\ FormatReturned
  /\ token = Str(YourTokenHere)
  /\ ~outcome[1].value.isValid
  /\ Texts(outcome[1].value.errors) =
       {"Token is still using placeholder value",
        "Token should have 3 parts separated by dots, found",
        "Token is too short"}

\* the warnings of the structure check
StructureTexts ==
  {"First part (user ID) seems too short",
   "Second part (timestamp) seems too short",
   "Third part (signature) seems too short",
   "First part contains invalid characters for base64",
   "Second part contains invalid characters for base64",
   "Third part contains invalid characters for base64"}

\* C16: isValid is true exactly when the error list is empty; the structure
\* check (segment minimum lengths, base64 characters) puts its messages in
\* the warnings only, so isValid is decided by the primary checks alone
C16_ValidIffNoHardError ==
  FormatReturned =>
    LET r == outcome[1].value
        t == Trim(token.chars)
    IN /\ r.isValid <=> r.errors = <<>>
       /\ Texts(r.errors) \cap StructureTexts = {}
       /\ r.isValid <=>
            /\ t \notin placeholders
            /\ r.format.hasCorrectParts
            /\ Len(t) >= 30
            /\ r.format.hasNoSpaces
            /\ r.format.hasNoQuotes
            /\ r.format.isNotBotToken

\* a valid result that carries a minimum-length warning and a character
\* warning of the structure check
C16_Witness ==
  /\ FormatReturned
  /\ outcome[1].value.isValid
  /\ "First part contains invalid characters for base64"
       \in Texts(outcome[1].value.warnings)
  /\ "Third part (signature) seems too short"
       \in Texts(outcome[1].value.warnings)

\* ------------------------------------------------------------ extraction
\* the base64 alphabet in the order of the values 0..63
Base64Alphabet ==
  << "A", "B", "C", "D", "E", "F", "G", "H", "I", "J", "K", "L", "M", "N", "O", "P",
     "Q", "R", "S", "T", "U", "V", "W", "X", "Y", "Z", "a", "b", "c", "d", "e", "f",
     "g", "h", "i", "j", "k", "l", "m", "n", "o", "p", "q", "r", "s", "t", "u", "v",
     "w", "x", "y", "z", "0", "1", "2", "3", "4", "5", "6", "7", "8", "9", "+", "/" >>

\* the value of a character for Buffer.from(s, 'base64'); the URL-safe
\* characters - and _ decode as + and /; -1 for any other character
unbase64(c) ==
  IF c = "-" THEN 62
  ELSE IF c = "_" THEN 63
  ELSE IF \E i \in 1..64 : Base64Alphabet[i] = c
    THEN (CHOOSE i \in 1..64 : Base64Alphabet[i] = c) - 1
  ELSE -1

\* the 6-bit values Buffer.from(s, 'base64') reads: characters outside the
\* alphabet are skipped, the first = ends the input
RECURSIVE Sextets(_)
Sextets(s) ==
  IF s = <<>> \/ Head(s) = "=" THEN <<>>
  ELSE IF unbase64(Head(s)) < 0 THEN Sextets(Tail(s))
  ELSE <<unbase64(Head(s))>> \o Sextets(Tail(s))

\* the bytes of a list of 6-bit values: three for each full group of four,
\* two for three left over, one for two left over
RECURSIVE Bytes(_)
Bytes(v) ==
  IF Len(v) < 2 THEN <<>>
  ELSE IF Len(v) = 2 THEN <<v[1] * 4 + v[2] \div 16>>
  ELSE IF Len(v) = 3
    THEN <<v[1] * 4 + v[2] \div 16, (v[2] % 16) * 16 + v[3] \div 4>>
  ELSE <<v[1] * 4 + v[2] \div 16,
         (v[2] % 16) * 16 + v[3] \div 4,
         (v[3] % 4) * 64 + v[4]>>
       \o Bytes(SubSeq(v, 5, Len(v)))

\* the printable ASCII characters, codes 32 to 126
Ascii ==
  << " ", "!", "DQUOTE", "#", "$", "%", "&", "SQUOTE", "(", ")", "*", "+", ",", "-", ".", "/",
     "0", "1", "2", "3", "4", "5", "6", "7", "8", "9", ":", ";", "<", "=", ">", "?",
     "@", "A", "B", "C", "D", "E", "F", "G", "H", "I", "J", "K", "L", "M", "N", "O",
     "P", "Q", "R", "S", "T", "U", "V", "W", "X", "Y", "Z", "[", "BACKSLASH", "]", "^", "_",
     "BACKTICK", "a", "b", "c", "d", "e", "f", "g", "h", "i", "j", "k", "l", "m", "n", "o",
     "p", "q", "r", "s", "t", "u", "v", "w", "x", "y", "z", "{", "|", "}", "~" >>

\* buffer.toString('utf-8'), byte by byte: a printable ASCII character, the
\* line feed, or a character that is neither a digit, a sign nor white space
toStringUtf8(bytes) ==
  [i \in 1..Len(bytes) |->
     IF bytes[i] >= 32 /\ bytes[i] <= 126 THEN Ascii[bytes[i] - 31]
     ELSE IF bytes[i] = 10 THEN "LF"
     ELSE "OTHER"]

\* Buffer.from(part, 'base64').toString('utf-8')
base64Decode(part) == toStringUtf8(Bytes(Sextets(part)))

Digits == <<"0", "1", "2", "3", "4", "5", "6", "7", "8", "9">>

IsDigit(c) == \E i \in 1..10 : Digits[i] = c

DigitValue(c) == (CHOOSE i \in 1..10 : Digits[i] = c) - 1

\* /^\d+$/.test(s)
allDigits(s) == Len(s) >= 1 /\ \A i \in 1..Len(s) : IsDigit(s[i])

\* the longest prefix of s made of digits
RECURSIVE DigitPrefix(_)
DigitPrefix(s) ==
  IF s # <<>> /\ IsDigit(Head(s)) THEN <<Head(s)>> \o DigitPrefix(Tail(s))
  ELSE <<>>

\* the number a string of digits denotes
RECURSIVE NumberOf(_)
NumberOf(d) ==
  IF d = <<>> THEN 0
  ELSE NumberOf(SubSeq(d, 1, Len(d) - 1)) * 10 + DigitValue(d[Len(d)])

\* parseInt(s, 10): leading white space is skipped, one sign is read, then
\* the digits up to the first character that is not one; NaN without a digit
parseInt(s) ==
  LET t == TrimStart(s)
      signed == t # <<>> /\ Head(t) \in {"+", "-"}
      d == DigitPrefix(IF signed THEN Tail(t) ELSE t)
  IN IF d = <<>> THEN [isNaN |-> TRUE, value |-> 0]
     ELSE [isNaN |-> FALSE,
           value |-> IF signed /\ Head(t) = "-" THEN 0 - NumberOf(d)
                     ELSE NumberOf(d)]

\* FormatValidator.extractUserId(token): the decoded first segment, or null;
\* token.split on a value that is no string throws inside the try block
extractUserId(input) ==
  LET attempt ==
        IF input.kind # "string"
          THEN Thrown(RuntimeError("Cannot read properties (reading 'split')"))
        ELSE IF Len(Split(input.chars)) # 3 THEN Returned(None)
        ELSE IF allDigits(base64Decode(Split(input.chars)[1]))
          THEN Returned(Some(base64Decode(Split(input.chars)[1])))
        ELSE Returned(None)
  IN IF attempt.kind = "thrown" THEN Returned(None) ELSE attempt

\* FormatValidator.extractTimestamp(input): the Date of the decoded second
\* segment read as seconds, or null
extractTimestamp(input) ==
  LET attempt ==
        IF input.kind # "string"
          THEN Thrown(RuntimeError("Cannot read properties (reading 'split')"))
        ELSE IF Len(Split(input.chars)) # 3 THEN Returned(None)
        ELSE IF parseInt(base64Decode(Split(input.chars)[2])).isNaN
          THEN Returned(None)
        ELSE Returned(Some(
               [time |-> parseInt(base64Decode(Split(input.chars)[2])).value
                         * 1000]))
  IN IF attempt.kind = "thrown" THEN Returned(None) ELSE attempt

\* segments given to the extraction functions, with the text they encode
EncodedSegments ==
  {
    <<"M","T","I","z">>,  \* 123
    <<"M","T","I","z","!">>,  \* 123 with !
    <<"M","T","J","h","Y","g","=","=">>,  \* 12ab
    <<"Y","W","J","j">>,  \* abc
    <<"M","Q","=","=">>,  \* 1
    <<"M","T","I">>,  \* 12 unpadded
    <<>>,  \* empty
    <<"!","!","!">>,  \* garbage
    <<"L","T","U","=">>,  \* -5
    <<"I","D","c","=">>,  \*  7
    <<"M","T","I","z","N","D","U","2","N","w","=","=">>,  \* 1234567
    <<"N","w","o","=">>   \* 7LF
  }

\* the tokens given to the extraction functions
ExtractTokens ==
  {Null, Undefined, Str(<<>>), Str(<<"M","T","I","z">>),
   Str(<<"M","T","I","z",".","M","T","I","z">>),
   Str(<<"M","T","I","z",".","M","T","I","z",".","s",".","s">>)}
  \cup {Str(a \o <<".">> \o b \o <<".", "s", "i", "g">>) :
          a \in EncodedSegments, b \in EncodedSegments}

\* a caller about to hand a token to an extraction function
InitExtract ==
  /\ NoConcurrentCalls
  /\ NoSources
  /\ config = [checkApi |-> TRUE, timeout |-> DEFAULT_TIMEOUT,
               includeUserInfo |-> TRUE, validateFormat |-> TRUE,
               userAgent |-> DEFAULT_USER_AGENT]
  /\ calls = 0
  /\ pc = "idle"
  /\ token \in ExtractTokens
  /\ method = "none"
  /\ result = None
  /\ outcome = None
  /\ usedConfig = None
  /\ req = NoRequest
  /\ promise = Pending
  /\ events = <<>>
  /\ requests = <<>>
  /\ proberCalls = 0
  /\ apiResult = None

\* FormatValidator.extractUserId(token)
ExtractUserId ==
  /\ UNCHANGED <<callState, heap, processEnv, files, call>>
  /\ pc = "idle"
  /\ calls' = calls + 1
  /\ method' = "extractUserId"
  /\ outcome' = Some(extractUserId(token))
  /\ pc' = "done"
  /\ UNCHANGED <<config, token, result, usedConfig, req, promise,
                 events, requests, proberCalls, apiResult>>

\* FormatValidator.extractTimestamp(token)
ExtractTimestamp ==
  /\ UNCHANGED <<callState, heap, processEnv, files, call>>
  /\ pc = "idle"
  /\ calls' = calls + 1
  /\ method' = "extractTimestamp"
  /\ outcome' = Some(extractTimestamp(token))
  /\ pc' = "done"
  /\ UNCHANGED <<config, token, result, usedConfig, req, promise,
                 events, requests, proberCalls, apiResult>>

NextExtract == ExtractUserId \/ ExtractTimestamp

SpecExtract == InitExtract /\ [][NextExtract]_vars

\* ------------------------------------------------------------ claim C17
\* the segment is base64 text: nothing but characters of the class the
\* structure check accepts
IsBase64Text(s) == \A i \in 1..Len(s) : s[i] \in Base64Chars

\* the text is an integer: digits, after at most one minus sign
IsInteger(s) ==
  \/ allDigits(s)
  \/ s # <<>> /\ Head(s) = "-" /\ allDigits(Tail(s))

\* C17 as claimed: the extraction functions never throw; each returns null
\* when the token has not 3 segments, when its segment holds a character
\* that is not base64, or when the decoded text is not purely numeric (all
\* digits for the identity, an integer for the timestamp)
C17_ExtractionStrict ==
  (pc = "done" /\ method \in {"extractUserId", "extractTimestamp"}) =>
    /\ outcome[1].kind = "returned"
    /\ (token.kind = "string" /\ SegmentCount(token.chars) # 3) =>
         outcome[1].value = None
    /\ (method = "extractUserId" /\ outcome[1].value # None) =>
         /\ IsBase64Text(Split(token.chars)[1])
         /\ allDigits(base64Decode(Split(token.chars)[1]))
    /\ (method = "extractTimestamp" /\ outcome[1].value # None) =>
         /\ IsBase64Text(Split(token.chars)[2])
         /\ IsInteger(base64Decode(Split(token.chars)[2]))

\* ------------------------------------------------------------ claim C18
\* C18: the settings of a call are those the checker has when the call is
\* invoked: the invocation decides whether the API step runs and fixes the
\* timeout, user agent and includeUserInfo of the request from the settings
\* of that moment; no later step of the call, and no updateConfig in
\* between, changes them, and the result is built from them
C18_SettingsFixedPerCall ==
  [][/\ calls' = calls + 1 =>
          /\ proberCalls' = 1 =>
               /\ apiStepRuns(method', config)
               /\ usedConfig' = Some(finalConfig(config))
               /\ \A i \in 1..Len(requests') :
                    /\ requests'[i].timeout = finalConfig(config).timeout
                    /\ requests'[i].userAgent = finalConfig(config).userAgent
          /\ (proberCalls' = 0 /\ pc' = "done" /\ outcome'[1].kind = "returned"
              /\ apiStepRuns(method', config)) =>
               (method' = "format" /\ ~outcome'[1].value.isValid)
     /\ calls' = calls =>
          /\ proberCalls' = proberCalls
          /\ usedConfig' = usedConfig
          /\ requests' = requests
     /\ (pc = "awaitApi" /\ pc' = "done") =>
          /\ apiResult'[1].success =>
               (apiResult'[1].userInfo # None <=> usedConfig[1].includeUserInfo)
          /\ (promise.state = "rejected"
              /\ promise.reason[1].message.text = "Request timeout after ... ms") =>
               apiResult'[1].error[1].nums = <<usedConfig[1].timeout>>
    ]_vars

\* a call has returned a profile although includeUserInfo is false by now,
\* and the timeout and user agent of its request are no longer the current
\* ones: the settings were updated while the call was in flight
C18_Witness ==
  /\ HasReturned
  /\ ProberReported
  /\ apiResult[1].success
  /\ apiResult[1].userInfo # None
  /\ ~config.includeUserInfo
  /\ ~config.checkApi
  /\ requests[1].timeout # finalConfig(config).timeout
  /\ requests[1].userAgent # finalConfig(config).userAgent

\* ------------------------------------------------------------ concurrency
\* the tokens, responses and failures of the two concurrent calls
ConcurrentTokens ==
  {Str(LongToken), Str(ThreeParts(10, 6, 20)), Str(<<"a", ".", "b", ".", "c">>)}

ConcurrentResponses ==
  {r \in Responses : r.statusCode \in {200, 401} /\ r.body.kind = "object"
                     /\ r.body.premium_type = None}

ConcurrentErrors == {"ECONNRESET"}

\* newResult, but every call keeps its result in one object of the checker
newResult_Shared(h) == CHOOSE o \in DOMAIN h : \A n \in DOMAIN h : o <= n

\* the object a call's `result = { ... }` creates: one the heap does not
\* hold yet
newResult(h) ==
  CHOOSE o \in DOMAIN h :
    h[o] = None /\ \A n \in DOMAIN h : h[n] = None => o <= n

\* a checker on which two calls are about to run
InitConcurrent ==
  /\ config \in {c \in Configs : c.timeout = 5000 /\ c.userAgent = "Custom/1.0"
                                 /\ c.validateFormat}
  /\ calls = 0
  /\ pc = "idle"
  /\ token = Null
  /\ method = "both"
  /\ result = None
  /\ outcome = None
  /\ usedConfig = None
  /\ req = NoRequest
  /\ promise = Pending
  /\ events = <<>>
  /\ requests = <<>>
  /\ proberCalls = 0
  /\ apiResult = None
  /\ NoConcurrentCalls
  /\ NoSources

\* call c is validateDirect(t, m), on a token no other call is validating:
\* it runs up to its first await
Invoke(c, t, m) ==
  /\ UNCHANGED <<processEnv, files, call>>
  /\ callState[c].pc = "idle"
  /\ \A d \in CallIds \ {c} : callState[d].pc = "idle" \/ callState[d].token # t
  /\ \E first \in {formatStep(t, "direct", m)} :
        IF first.kind = "thrown"
          THEN /\ callState' = [callState EXCEPT ![c] =
                    [@ EXCEPT !.pc = "done", !.token = t, !.method = m,
                              !.thrown = first.error]]
               /\ heap' = heap
        ELSE
          \E ref \in {newResult(heap)} :
            /\ heap' = [heap EXCEPT ![ref] = Some(first.value)]
            /\ IF (~first.value.isValid /\ m = "format") \/ ~apiStepRuns(m, config)
                 THEN callState' = [callState EXCEPT ![c] =
                        [@ EXCEPT !.pc = "done", !.token = t, !.method = m,
                                  !.ref = ref]]
                 ELSE \E made \in {makeApiRequest(t, finalConfig(config))} :
                        callState' = [callState EXCEPT ![c] =
                          [@ EXCEPT !.pc = "awaitApi", !.token = t, !.method = m,
                                    !.ref = ref,
                                    !.usedConfig = Some(finalConfig(config)),
                                    !.req = made.req,
                                    !.requests = made.sent,
                                    !.promise = made.promise]]
  /\ UNCHANGED <<config, calls, pc, token, method, result, outcome, usedConfig,
                 req, promise, events, requests, proberCalls, apiResult>>

\* the response to the request of call c has been received in full
End(c, res) ==
  /\ UNCHANGED <<processEnv, files, call>>
  /\ callState[c].req.state \in {"pending", "destroyed"}
  /\ \A i \in 1..Len(callState[c].events) :
       callState[c].events[i] \notin {"end", "error"}
  /\ callState' = [callState EXCEPT ![c] =
       [@ EXCEPT !.events = Append(@, "end"),
                 !.req = [state |-> IF @.state = "pending" THEN "completed"
                                    ELSE @.state,
                          response |-> Some(res)],
                 !.promise = settle(@, onEnd(res))]]
  /\ UNCHANGED <<config, calls, pc, token, method, result, outcome, usedConfig,
                 req, promise, events, requests, proberCalls, apiResult, heap>>

\* the request of call c emits 'error'
Error(c, message) ==
  /\ UNCHANGED <<processEnv, files, call>>
  /\ callState[c].req.state \in {"pending", "destroyed"}
  /\ \A i \in 1..Len(callState[c].events) :
       callState[c].events[i] \notin {"end", "error"}
  /\ callState' = [callState EXCEPT ![c] =
       [@ EXCEPT !.events = Append(@, "error"),
                 !.req = [@ EXCEPT !.state = IF @ = "pending" THEN "errored"
                                             ELSE @],
                 !.promise = settle(@, onError(message))]]
  /\ UNCHANGED <<config, calls, pc, token, method, result, outcome, usedConfig,
                 req, promise, events, requests, proberCalls, apiResult, heap>>

\* the request of call c emits 'timeout'
Timeout(c) ==
  /\ UNCHANGED <<processEnv, files, call>>
  /\ callState[c].req.state = "pending"
  /\ callState' = [callState EXCEPT ![c] =
       [@ EXCEPT !.events = Append(@, "timeout"),
                 !.req = destroy(@),
                 !.promise = settle(@, onTimeout(callState[c].usedConfig[1]))]]
  /\ UNCHANGED <<config, calls, pc, token, method, result, outcome, usedConfig,
                 req, promise, events, requests, proberCalls, apiResult, heap>>

\* the promise of call c has settled: its validateWithApi returns and its
\* validateToken merges the outcome into its result object and returns it
Resume(c) ==
  /\ UNCHANGED <<processEnv, files, call>>
  /\ callState[c].pc = "awaitApi"
  /\ callState[c].promise.state # "pending"
  /\ \E response \in {validateWithApiResult(callState[c].promise,
                                            callState[c].usedConfig[1])} :
       /\ callState' = [callState EXCEPT ![c] =
            [@ EXCEPT !.pc = "done", !.apiResult = Some(response)]]
       /\ heap' = [heap EXCEPT ![callState[c].ref] =
            Some(mergeApi(@[1], Returned(response)))]
  /\ UNCHANGED <<config, calls, pc, token, method, result, outcome, usedConfig,
                 req, promise, events, requests, proberCalls, apiResult>>

NextConcurrent ==
  \/ \E c \in CallIds, t \in ConcurrentTokens, m \in Methods : Invoke(c, t, m)
  \/ \E c \in CallIds, res \in ConcurrentResponses : End(c, res)
  \/ \E c \in CallIds, e \in ConcurrentErrors : Error(c, e)
  \/ \E c \in CallIds : Timeout(c)
  \/ \E c \in CallIds : Resume(c)

SpecConcurrent == InitConcurrent /\ [][NextConcurrent]_vars

\* ------------------------------------------------------------ claim C19
\* what call c returns when it runs alone: the result of its format step,
\* merged with the outcome of its own request when its API step ran
AloneResult(c) ==
  LET s == callState[c]
      first == formatStep(s.token, "direct", s.method).value
  IN IF s.apiResult = None THEN first
     ELSE mergeApi(first,
            Returned(validateWithApiResult(s.promise, finalConfig(config))))

\* the promise of call c is settled by the first event of its own request
OwnOutcome(c) ==
  LET s == callState[c]
  IN s.events # <<>> =>
       /\ s.events[1] = "end" => s.promise = onEnd(s.req.response[1])
       /\ s.events[1] = "timeout" =>
            s.promise = onTimeout(finalConfig(config))
       /\ s.events[1] = "error" =>
            /\ s.promise.state = "rejected"
            /\ s.promise.reason[1].type = NETWORK_ERROR

\* C19: of two validateDirect calls on different tokens that run
\* concurrently on one checker, each returns the result it returns alone
\* for the same response, whatever the interleaving; the two result objects
\* are distinct, and a returned result is never changed by the other call
C19_NoInterference ==
  /\ \A c \in CallIds :
       /\ (callState[c].pc = "done" /\ callState[c].ref # 0) =>
            heap[callState[c].ref] = Some(AloneResult(c))
       /\ callState[c].pc # "idle" =>
            /\ OwnOutcome(c)
            /\ \A i \in 1..Len(callState[c].requests) :
                 callState[c].requests[i].authorization =
                   callState[c].token.chars
  /\ \A c, d \in CallIds :
       (c # d /\ callState[c].ref # 0 /\ callState[d].ref # 0) =>
         callState[c].ref # callState[d].ref

\* the call invoked second has already returned the failure of its own
\* request while the call invoked first still awaits its response, and the
\* first call's result object is untouched
C19_Witness ==
  /\ callState[1].pc = "awaitApi"
  /\ callState[1].ref = 1
  /\ callState[2].pc = "done"
  /\ callState[2].ref = 2
  /\ callState[2].apiResult # None
  /\ ~callState[2].apiResult[1].success
  /\ ~heap[2][1].isValid
  /\ heap[1][1].isValid
  /\ heap[1][1].api = None

\* ------------------------------------------------------------ claim C20
\* C20 as claimed: rate limits are retried automatically: a call whose
\* request was answered with status 429 has issued the request again before
\* it returns, and does not return the rate-limited failure of a single
\* attempt
C20_RetriesAfterRateLimit ==
  (/\ HasReturned
   /\ ProberReported
   /\ ResponseCompleted
   /\ req.response[1].statusCode = 429
   /\ req.response[1].body.kind # "unparsable") =>
    /\ Len(requests) >= 2
    /\ apiResult[1].rateLimited # Some(TRUE)

\* ------------------------------------------------------------ claim C21
\* C21 as claimed: the validateFormat option decides whether the format
\* checks take part in validateDirect(token, 'both'): with the option false
\* the result carries no format error and its isValid is decided by the API
\* step alone; with the option true the format errors are in the result and
\* a token the format checks reject is invalid
C21_ValidateFormatOption ==
  (HasReturned /\ method = "both") =>
    /\ ~config.validateFormat =>
         /\ \A i \in 1..Len(outcome[1].value.errors) :
              outcome[1].value.errors[i].prefix # ""
         /\ outcome[1].value.isValid <=>
              (proberCalls = 0 \/ (ProberReported /\ apiResult[1].success))
    /\ config.validateFormat =>
         /\ Len(outcome[1].value.errors) >= Len(FormatErrors)
         /\ SubSeq(outcome[1].value.errors, 1, Len(FormatErrors)) = FormatErrors
         /\ FormatRejects => ~outcome[1].value.isValid

\* ------------------------------------------------------------ env and file
\* the largest number of calls made on one checker through the entry points
\* that read a file
MaxSourceCalls == 2

\* a file: the text readFileSync returns, the KEY=value lines dotenv finds
\* in it, and whether the process may read it
File(text, lines, readable) ==
  [text |-> text, lines |-> lines, readable |-> readable]

Line(key, raw) == [key |-> key, raw |-> raw]

\* the files on disk before the first call
InitialFiles ==
  [p \in EnvPaths \cup FilePaths |->
     CASE p = "a.env" ->
            Some(File(<<>>, <<Line("DISCORD_TOKEN",
                                   <<"DQUOTE">> \o LongToken \o <<"DQUOTE">>)>>,
                      TRUE))
       [] p = "b.env" ->
            Some(File(<<>>, <<Line("DISCORD_TOKEN", ThreeParts(10, 6, 20))>>,
                      TRUE))
       [] p = "c.env" ->
            Some(File(<<>>, <<Line("USER_TOKEN", <<"a", ".", "b", ".", "c">>)>>,
                      TRUE))
       [] p = "token.txt" -> Some(File(LongToken \o <<"LF">>, <<>>, TRUE))
       [] p = "short.txt" -> Some(File(<<"a", ".", "b", ".", "c">>, <<>>, TRUE))
       [] p = "empty.txt" -> Some(File(<<>>, <<>>, TRUE))
       [] p = "blank.txt" -> Some(File(<<" ", "LF">>, <<>>, TRUE))
       [] p = "locked.txt" -> Some(File(LongToken, <<>>, FALSE))
       [] OTHER -> None]

\* the value dotenv gives a line: trimmed, and without the quotes around it
dotenvValue(raw) ==
  LET t == Trim(raw)
  IN IF Len(t) >= 2 /\ t[1] \in {"DQUOTE", "SQUOTE"} /\ t[Len(t)] = t[1]
       THEN SubSeq(t, 2, Len(t) - 1)
       ELSE t

\* dotenv.parse: the value of each variable the file assigns, the last
\* assignment of a variable winning
dotenvParse(file) ==
  [v \in TokenVars |->
     LET at == {i \in 1..Len(file.lines) : file.lines[i].key = v}
     IN IF at = {} THEN None
        ELSE Some(dotenvValue(
               file.lines[CHOOSE i \in at : \A j \in at : j <= i].raw))]

\* config({ path: envPath }) of dotenv: process.env afterwards; a variable
\* that is already set keeps its value, a file that cannot be read changes
\* nothing and raises nothing
dotenvConfig(env, fsys, envPath) ==
  IF fsys[envPath] = None \/ ~fsys[envPath][1].readable THEN env
  ELSE [v \in TokenVars |->
          IF env[v] # None THEN env[v] ELSE dotenvParse(fsys[envPath][1])[v]]

\* validateToken(token, source, method) up to its first await: where the
\* call stands and what it has built
validateTokenStart(t, source, m, c) ==
  LET first == formatStep(t, source, m)
      made == makeApiRequest(t, finalConfig(c))
  IN IF first.kind = "thrown"
       THEN [pc |-> "done", result |-> None, outcome |-> Some(first),
             usedConfig |-> None, req |-> [state |-> "none", response |-> None],
             promise |-> Pending, requests |-> <<>>, proberCalls |-> 0]
     ELSE IF (~first.value.isValid /\ m = "format") \/ ~apiStepRuns(m, c)
       THEN [pc |-> "done", result |-> Some(first.value),
             outcome |-> Some(first), usedConfig |-> None,
             req |-> [state |-> "none", response |-> None],
             promise |-> Pending, requests |-> <<>>, proberCalls |-> 0]
     ELSE [pc |-> "awaitApi", result |-> Some(first.value), outcome |-> None,
           usedConfig |-> Some(finalConfig(c)), req |-> made.req,
           promise |-> made.promise, requests |-> made.sent,
           proberCalls |-> 1]

\* a call that throws before it reaches validateToken
ThrowsEarly(e) ==
  /\ pc' = "done"
  /\ token' = Null
  /\ result' = None
  /\ outcome' = Some(Thrown(e))
  /\ usedConfig' = None
  /\ req' = [state |-> "none", response |-> None]
  /\ promise' = Pending
  /\ requests' = <<>>
  /\ proberCalls' = 0
  /\ apiResult' = None

\* validateFromEnv({ envPath, tokenVar }), up to the first await of its
\* validateToken
ValidateFromEnv(envPath, tokenVar) ==
  /\ pc \in {"idle", "done"}
  /\ calls < MaxSourceCalls
  /\ calls' = calls + 1
  /\ call' = [kind |-> "env", path |-> envPath, tokenVar |-> tokenVar,
              cleanup |-> FALSE]
  /\ method' = "both"
  /\ events' = <<>>
  /\ processEnv' = dotenvConfig(processEnv, files, envPath)
  /\ IF files[envPath] = None
       THEN ThrowsEarly(TokenValidationError(
              Msg(".env file not found at", <<>>, envPath),
              FILE_NOT_FOUND, None, None))
     ELSE IF processEnv'[tokenVar] = None \/ processEnv'[tokenVar][1] = <<>>
       THEN ThrowsEarly(TokenValidationError(
              Msg("not found in environment variables", <<>>, tokenVar),
              TOKEN_NOT_FOUND, None, None))
     ELSE \E start \in {validateTokenStart(Str(processEnv'[tokenVar][1]),
                                           "env", "both", config)} :
            /\ token' = Str(processEnv'[tokenVar][1])
            /\ pc' = start.pc
            /\ result' = start.result
            /\ outcome' = start.outcome
            /\ usedConfig' = start.usedConfig
            /\ req' = start.req
            /\ promise' = start.promise
            /\ requests' = start.requests
            /\ proberCalls' = start.proberCalls
            /\ apiResult' = None
  /\ UNCHANGED <<config, files, callState, heap>>

\* cleanupFile, but a deletion that fails makes the result invalid
cleanupFile_FailureInvalidates(r, fsys, filePath, cleanup, unlinkFails) ==
  IF ~cleanup THEN [result |-> r, files |-> fsys]
  ELSE IF unlinkFails \/ fsys[filePath] = None
    THEN [result |-> [r EXCEPT !.isValid = FALSE,
                        !.errors =
                          Append(@, Msg("Failed to clean up file", <<>>, ""))],
          files |-> fsys]
  ELSE [result |-> r, files |-> [fsys EXCEPT ![filePath] = None]]

\* the cleanup of validateFromFile: the result and the file system after it;
\* unlinkSync throws when the file is gone or may not be removed
cleanupFile(r, fsys, filePath, cleanup, unlinkFails) ==
  IF ~cleanup THEN [result |-> r, files |-> fsys]
  ELSE IF unlinkFails \/ fsys[filePath] = None
    THEN [result |-> [r EXCEPT !.warnings =
                        Append(@, Msg("Failed to clean up file", <<>>, ""))],
          files |-> fsys]
  ELSE [result |-> r, files |-> [fsys EXCEPT ![filePath] = None]]

\* validateFromFile({ filePath, cleanup }), up to the first await of its
\* validateToken, or to its end when validateToken does not wait
ValidateFromFile(filePath, cleanup) ==
  /\ pc \in {"idle", "done"}
  /\ calls < MaxSourceCalls
  /\ calls' = calls + 1
  /\ call' = [kind |-> "file", path |-> filePath, tokenVar |-> "",
              cleanup |-> cleanup]
  /\ method' = "both"
  /\ events' = <<>>
  /\ IF files[filePath] = None
       THEN /\ ThrowsEarly(TokenValidationError(
                 Msg("Token file not found at", <<>>, filePath),
                 FILE_NOT_FOUND, None, None))
            /\ files' = files
     ELSE IF ~files[filePath][1].readable
       THEN /\ ThrowsEarly(TokenValidationError(
                 Msg("Failed to read token file", <<>>, ""),
                 FILE_NOT_FOUND, None, None))
            /\ files' = files
     ELSE IF Trim(files[filePath][1].text) = <<>>
       THEN /\ ThrowsEarly(TokenValidationError(
                 Msg("Token file is empty", <<>>, ""),
                 TOKEN_NOT_FOUND, None, None))
            /\ files' = files
     ELSE \E start \in {validateTokenStart(Str(Trim(files[filePath][1].text)),
                                           "file", "both", config)} :
            /\ token' = Str(Trim(files[filePath][1].text))
            /\ usedConfig' = start.usedConfig
            /\ req' = start.req
            /\ promise' = start.promise
            /\ requests' = start.requests
            /\ proberCalls' = start.proberCalls
            /\ apiResult' = None
            /\ IF start.pc = "awaitApi"
                 THEN /\ pc' = "awaitApiFile"
                      /\ result' = start.result
                      /\ outcome' = None
                      /\ files' = files
               ELSE IF start.outcome[1].kind = "thrown"
                 THEN /\ pc' = "done"
                      /\ result' = None
                      /\ outcome' = start.outcome
                      /\ files' = files
               ELSE \E unlinkFails \in BOOLEAN :
                      \E cleaned \in {cleanupFile(start.result[1], files,
                                                  filePath, cleanup,
                                                  unlinkFails)} :
                        /\ pc' = "done"
                        /\ result' = Some(cleaned.result)
                        /\ outcome' = Some(Returned(cleaned.result))
                        /\ files' = cleaned.files
  /\ UNCHANGED <<config, processEnv, callState, heap>>

\* the promise has settled: validateToken merges and returns, and
\* validateFromFile cleans up and returns the same result
ValidateFromFileResume ==
  /\ pc = "awaitApiFile"
  /\ promise.state # "pending"
  /\ pc' = "done"
  /\ \E response \in {validateWithApiResult(promise, usedConfig[1])} :
       \E merged \in {mergeApi(result[1], Returned(response))} :
         \E unlinkFails \in BOOLEAN :
           \E cleaned \in {cleanupFile(merged, files, call.path, call.cleanup,
                                       unlinkFails)} :
             /\ apiResult' = Some(response)
             /\ result' = Some(cleaned.result)
             /\ outcome' = Some(Returned(cleaned.result))
             /\ files' = cleaned.files
  /\ UNCHANGED <<config, calls, token, method, usedConfig, req, promise,
                 events, requests, proberCalls, processEnv, call, callState,
                 heap>>

\* the settings, tokens and responses of the calls through the three entry
\* points
SourceConfigs ==
  {c \in Configs : c.timeout = 5000 /\ c.userAgent = "Custom/1.0"}

SourceTokens ==
  {Str(LongToken), Str(<<"a", ".", "b", ".", "c">>), Str(<<" ">> \o LongToken)}

SourceResponses ==
  {r \in Responses : r.statusCode \in {200, 401, 429}}

\* a checker in a process whose environment sets no token variable
InitSources ==
  /\ config \in SourceConfigs
  /\ calls = 0
  /\ pc = "idle"
  /\ token = Null
  /\ method = "both"
  /\ result = None
  /\ outcome = None
  /\ usedConfig = None
  /\ req = NoRequest
  /\ promise = Pending
  /\ events = <<>>
  /\ requests = <<>>
  /\ proberCalls = 0
  /\ apiResult = None
  /\ NoConcurrentCalls
  /\ processEnv = [v \in TokenVars |-> None]
  /\ files = InitialFiles
  /\ call = DirectCall

NextSources ==
  \/ \E t \in SourceTokens, m \in Methods : ValidateDirect(t, m)
  \/ \E p \in EnvPaths, v \in TokenVars : ValidateFromEnv(p, v)
  \/ \E p \in FilePaths, cleanup \in BOOLEAN : ValidateFromFile(p, cleanup)
  \/ \E res \in SourceResponses : ResEnd(res)
  \/ \E e \in TransportErrors : ReqError(e)
  \/ ReqTimeout
  \/ ValidateTokenResume
  \/ ValidateFromFileResume

SpecSources == InitSources /\ [][NextSources]_vars

\* ------------------------------------------------------------ claim C22
\* C22: in every result validateDirect, validateFromEnv or validateFromFile
\* returns, isValid is true exactly when the errors list is empty
C22_ValidIffNoErrors ==
  HasReturned =>
    (outcome[1].value.isValid <=> outcome[1].value.errors = <<>>)

\* a result read from a file is invalid for the failure of its request alone
\* and says so in its errors
C22_Witness ==
  /\ HasReturned
  /\ call.kind = "file"
  /\ FormatAccepts
  /\ ~outcome[1].value.isValid
  /\ Len(outcome[1].value.errors) = 1
  /\ outcome[1].value.errors[1].prefix = "API validation failed: "

\* ------------------------------------------------------------ claim C23
\* C23 as claimed: a validateFromEnv call with env file P and variable V,
\* whatever calls came before it, validates the value P assigns to V, throws
\* TOKEN_NOT_FOUND when P does not assign V, and throws FILE_NOT_FOUND
\* without a request when P does not exist
C23_OwnEnvFile ==
  (call.kind = "env" /\ pc # "idle") =>
    /\ files[call.path] = None =>
         /\ HasThrown
         /\ outcome[1].error[1].type = FILE_NOT_FOUND
         /\ requests = <<>>
    /\ files[call.path] # None =>
         LET assigned == dotenvParse(files[call.path][1])[call.tokenVar]
         IN /\ assigned = None =>
                 /\ HasThrown
                 /\ outcome[1].error[1].type = TOKEN_NOT_FOUND
            /\ assigned # None => token = Str(assigned[1])

\* ------------------------------------------------------------ claim C24
\* the step in which a validateFromFile call returns its result
FileCallReturns ==
  /\ call'.kind = "file"
  /\ outcome' # None
  /\ outcome'[1].kind = "returned"
  /\ outcome = None \/ calls' = calls + 1

\* the result carries the warning of a failed cleanup
CleanupWarned(r) == WithText(r.warnings, "Failed to clean up file") # {}

\* C24: a token file is deleted only in the step in which a validateFromFile
\* call with cleanup=true returns its result, and it is the file of that
\* call; a missing file raises FILE_NOT_FOUND and an empty one
\* TOKEN_NOT_FOUND, without a request and without a deletion; a deletion
\* that fails adds one warning and leaves isValid and the errors as the
\* format and API steps made them; with cleanup=false nothing is deleted
C24_CleanupAfterResult ==
  [][/\ files' # files =>
          /\ FileCallReturns
          /\ call'.cleanup
          /\ files[call'.path] # None
          /\ files' = [files EXCEPT ![call'.path] = None]
          /\ ~CleanupWarned(outcome'[1].value)
     /\ (calls' = calls + 1 /\ call'.kind = "file") =>
          /\ files[call'.path] = None =>
               /\ outcome'[1].kind = "thrown"
               /\ outcome'[1].error[1].type = FILE_NOT_FOUND
               /\ requests' = <<>>
               /\ files' = files
          /\ (/\ files[call'.path] # None
              /\ files[call'.path][1].readable
              /\ Trim(files[call'.path][1].text) = <<>>) =>
               /\ outcome'[1].kind = "thrown"
               /\ outcome'[1].error[1].type = TOKEN_NOT_FOUND
               /\ requests' = <<>>
               /\ files' = files
     /\ FileCallReturns =>
          LET r == outcome'[1].value
              formatResult == validateFormat(token').value
              apiFailed == proberCalls' = 1 /\ ~apiResult'[1].success
          IN /\ r.isValid = (formatResult.isValid /\ ~apiFailed)
             /\ Len(r.errors) =
                  Len(formatResult.errors) + (IF apiFailed THEN 1 ELSE 0)
             /\ WithText(r.errors, "Failed to clean up file") = {}
             /\ (call'.cleanup /\ files' = files) =>
                  /\ r.warnings # <<>>
                  /\ r.warnings[Len(r.warnings)].text = "Failed to clean up file"
                  /\ Cardinality(WithText(r.warnings,
                                          "Failed to clean up file")) = 1
             /\ ~call'.cleanup => (files' = files /\ ~CleanupWarned(r))
    ]_vars

\* a call with cleanup=true has returned the outcome of its request and its
\* file is gone, while a file it was not asked to delete is still there
C24_Witness ==
  /\ call.kind = "file"
  /\ call.cleanup
  /\ HasReturned
  /\ ProberReported
  /\ outcome[1].value.api # None
  /\ files[call.path] = None
  /\ InitialFiles[call.path] # None
  /\ ~CleanupWarned(outcome[1].value)
  /\ files["short.txt"] # None

====
